---- MODULE Spec2Model ----
(***************************************************************************)
(* HytaleBlockReader: the import handler (three versions of App.tsx), the  *)
(* material tally, the display sort, the name-to-color hash, the color     *)
(* map, the layer grid, the startup from localStorage and the persistence  *)
(* effects of the layer-aware App.                                         *)
(*                                                                         *)
(* Text values are sequences of UTF-16 code units, so that toLowerCase,    *)
(* includes and charCodeAt are computed and not assumed.                   *)
(***************************************************************************)
EXTENDS Integers, Sequences, FiniteSets, TLC

VARIABLES
    variant,        \* which App.tsx handles the file: "basic", "fluid", "layer"
    doc,            \* the text handed to reader.onload, as the document it parses to
    outcome,        \* what reader.onload did with doc
    pc,             \* "read" before the function under study ran, "done" after,
                    \* "threw" when the first render of App threw
    colorName,      \* the name handed to generateColorFromName
    color,          \* the color it returned
    materials,      \* useState materials: the tally
    blocks,         \* useState blocks: the block list
    blockColors,    \* useState blockColors: name -> color
    error,          \* useState error: the message shown, "" for none
    checkedItems,   \* useState checkedItems: name -> boolean
    selectedLayer,  \* useState selectedLayer
    storage,        \* localStorage: the four persisted entries
    pending,        \* file reads started and not yet completed, in start order
    lastOp,         \* the latest step: how an import ended, "toggle", "reload"
    imported        \* the document of that import

aggVars == <<variant, doc, outcome>>

colorVars == <<colorName, color>>

appVars ==
    <<materials, blocks, blockColors, error, checkedItems, selectedLayer,
      storage, pending, lastOp, imported>>

vars ==
    <<variant, doc, outcome, pc, colorName, color, materials, blocks,
      blockColors, error, checkedItems, selectedLayer, storage, pending,
      lastOp, imported>>

-----------------------------------------------------------------------------
(* Bounds *)

MaxBlocks == 2      \* longest blocks list of a document
MaxFluids == 1      \* longest fluids list of a document
MaxNameLen == 6     \* longest name handed to generateColorFromName
MaxAppBlocks == 2   \* longest blocks list of a file imported into the running App
MaxPending == 2     \* most file reads in flight at once
MaxGridBlocks == 2  \* longest block list handed to the grid

-----------------------------------------------------------------------------
(* Text *)

\* "dirt"
NameDirt == <<100, 105, 114, 116>>
\* "Dirt": differs from "dirt" only in case
NameDirtUpper == <<68, 105, 114, 116>>
\* "Empty": its lowercase form contains "empty"
NameEmpty == <<69, 109, 112, 116, 121>>
\* "constructor": a property every object literal inherits
NameConstructor == <<99, 111, 110, 115, 116, 114, 117, 99, 116, 111, 114>>
\* the search text of includes('empty')
TextEmpty == <<101, 109, 112, 116, 121>>

\* String.prototype.toLowerCase on the code units used here (A-Z -> a-z)
ToLowerCase(s) ==
    [i \in DOMAIN s |-> IF s[i] >= 65 /\ s[i] <= 90 THEN s[i] + 32 ELSE s[i]]

\* String.prototype.includes
Includes(s, t) ==
    \E i \in 0..(Len(s) - Len(t)) : SubSeq(s, i + 1, i + Len(t)) = t

\* Property names that the object literal {} answers without owning them
\* (Object.prototype); "constructor" stands for them.
InheritedNames == {NameConstructor}

\* String(n) for a one-digit number: the property key a numeric name becomes
NumKey(n) == <<48 + n>>

-----------------------------------------------------------------------------
(* Documents *)

\* The name field of a record: absent, a number, or a text
NoName == [nk |-> "none", num |-> 0, str |-> <<>>]
NumName(n) == [nk |-> "num", num |-> n, str |-> <<>>]
StrName(s) == [nk |-> "str", num |-> 0, str |-> s]

NameValues ==
    {NoName, NumName(0), NumName(5), StrName(<<>>), StrName(NameDirt),
     StrName(NameDirtUpper), StrName(NameEmpty), StrName(NameConstructor)}

\* An element of a blocks or fluids array: the JSON null, a primitive (a
\* number, a text), or an object
Rec(rk, nm, x, y, z) == [rk |-> rk, name |-> nm, x |-> x, y |-> y, z |-> z]
NullRecord == Rec("null", NoName, 0, 0, 0)
PrimRecord == Rec("prim", NoName, 0, 0, 0)

\* A coordinate the record does not have: block.x answers undefined
Undefined == 0 - 1000
\* Math.min and Math.max of a list that holds undefined
NaN == 0 - 1001

AggRecords ==
    {NullRecord, PrimRecord} \cup {Rec("obj", nm, 0, 0, 0) : nm \in NameValues}

SeqsUpTo(S, n) == UNION {[1..k -> S] : k \in 0..n}

\* A field that should hold an array: absent, not an array, or an array
Absent == [kind |-> "absent", items |-> <<>>]
NotArray == [kind |-> "notarray", items |-> <<>>]
ArrayOf(items) == [kind |-> "array", items |-> items]

\* What the text parses to: nothing (invalid JSON), null, a value without
\* properties of its own (number, text, boolean), or an object
Doc(kind, b, f) == [kind |-> kind, blocks |-> b, fluids |-> f]
InvalidDoc == Doc("invalid", Absent, Absent)
NullDoc == Doc("null", Absent, Absent)
ScalarDoc == Doc("scalar", Absent, Absent)

FieldValues(S, n) == {Absent, NotArray} \cup {ArrayOf(s) : s \in SeqsUpTo(S, n)}

AggDocs ==
    {InvalidDoc, NullDoc, ScalarDoc}
    \cup {Doc("object", b, f) : b \in FieldValues(AggRecords, MaxBlocks),
                                f \in FieldValues(AggRecords, MaxFluids)}

-----------------------------------------------------------------------------
(* The tally *)

\* One property of the materials object, in insertion order. numeric is
\* FALSE when the stored count is not a number (basic version only).
Entry(n, c, t, num) == [name |-> n, count |-> c, type |-> t, numeric |-> num]

Keys(m) == {m[i].name : i \in DOMAIN m}

IndexOf(m, n) == CHOOSE i \in DOMAIN m : m[i].name = n

\* block.name is truthy
Truthy(nm) ==
    \/ nm.nk = "num" /\ nm.num # 0
    \/ nm.nk = "str" /\ Len(nm.str) > 0

\* The result of running a forEach body: the tally so far, or thrown
Acc(m) == [thrown |-> FALSE, counts |-> m]
Thrown == [thrown |-> TRUE, counts |-> <<>>]

\* if (!materialCounts[name]) materialCounts[name] = {count: 0, type};
\* materialCounts[name].count += 1
CountName(m, n, t) ==
    IF n \in Keys(m)
    THEN [m EXCEPT ![IndexOf(m, n)].count = @ + 1]
    ELSE IF n \in InheritedNames
    THEN m      \* the inherited object is truthy: no own property is made
    ELSE Append(m, Entry(n, 1, t, TRUE))

\* CountRecord with the search for "empty" made on the name as written
CountRecordCaseSensitive(acc, r, t) ==
    IF acc.thrown THEN acc
    ELSE IF r.rk = "null" THEN Thrown
    ELSE IF ~Truthy(r.name) THEN acc
    ELSE IF r.name.nk # "str" THEN Thrown
    ELSE IF Includes(r.name.str, TextEmpty) THEN acc
    ELSE Acc(CountName(acc.counts, r.name.str, t))

\* The forEach body of the fluid and layer versions
CountRecord(acc, r, t) ==
    IF acc.thrown THEN acc
    ELSE IF r.rk = "null" THEN Thrown               \* null.name
    ELSE IF ~Truthy(r.name) THEN acc
    ELSE IF r.name.nk # "str" THEN Thrown           \* name.toLowerCase is not a function
    ELSE IF Includes(ToLowerCase(r.name.str), TextEmpty) THEN acc
    ELSE Acc(CountName(acc.counts, r.name.str, t))

\* materialCounts[name] = (materialCounts[name] || 0) + 1
CountNameBasic(m, n) ==
    IF n \in Keys(m)
    THEN [m EXCEPT ![IndexOf(m, n)].count = @ + 1]
    ELSE IF n \in InheritedNames
    THEN Append(m, Entry(n, 1, "none", FALSE))   \* function + 1: a text, not a number
    ELSE Append(m, Entry(n, 1, "none", TRUE))

\* The forEach body of the basic version
CountRecordBasic(acc, r) ==
    IF acc.thrown THEN acc
    ELSE IF r.rk = "null" THEN Thrown
    ELSE IF ~Truthy(r.name) THEN acc
    ELSE Acc(CountNameBasic(acc.counts,
                IF r.name.nk = "num" THEN NumKey(r.name.num) ELSE r.name.str))

RECURSIVE ForEach(_, _, _, _)
ForEach(v, acc, items, t) ==
    IF items = <<>> THEN acc
    ELSE ForEach(v,
                 IF v = "basic" THEN CountRecordBasic(acc, Head(items))
                 ELSE CountRecord(acc, Head(items), t),
                 Tail(items), t)

\* The counting started from the tally in state instead of an empty object
CarriedCounts == materials

\* const materialCounts: Materials = {}
EmptyCounts == <<>>

SchemaMessage == "JSON must contain a \"blocks\" array"
ParseMessage == "Failed to parse JSON"

Outcome(k, m, b) == [kind |-> k, materials |-> m, blocks |-> b]

\* reader.onload up to the state setters: which branch is taken and what it
\* hands to setMaterials and setBlocks
HandleOnload(v, d) ==
    IF d.kind = "invalid" THEN Outcome("parse", <<>>, <<>>)
    ELSE IF d.kind = "null" THEN Outcome("parse", <<>>, <<>>)       \* null.blocks throws
    ELSE IF d.kind = "scalar" \/ d.blocks.kind # "array"
    THEN Outcome("schema", <<>>, <<>>)
    ELSE LET afterBlocks == ForEach(v, Acc(EmptyCounts), d.blocks.items, "block")
             afterFluids ==
                 IF v # "basic" /\ d.fluids.kind = "array"
                 THEN ForEach(v, afterBlocks, d.fluids.items, "fluid")
                 ELSE afterBlocks
         IN  IF afterFluids.thrown
             THEN Outcome("parse", <<>>, <<>>)
             ELSE Outcome("ok", afterFluids.counts, d.blocks.items)

-----------------------------------------------------------------------------
(* The color of a name *)

\* JavaScript's 32-bit integers, held as a signed value and taken apart
\* into 16-bit halves so that no intermediate result leaves 32 bits.
Half == 65536

LowHalf(h) == h % Half
HighHalf(h) == (h \div Half) % Half

\* ToInt32 of the value whose halves (not yet reduced) are hi and lo
Int32(hi, lo) ==
    LET l == lo % Half
        u == (hi + (lo \div Half)) % Half
    IN  (IF u >= Half \div 2 THEN u - Half ELSE u) * Half + l

\* hash << 5
ShiftLeft5(h) == Int32(HighHalf(h) * 32, LowHalf(h) * 32)

\* hash = ((hash << 5) - hash) + char; hash = hash & hash
HashStep(h, char) ==
    LET shifted == ShiftLeft5(h)
    IN  Int32((shifted \div Half) - (h \div Half), LowHalf(shifted) - LowHalf(h) + char)

RECURSIVE HashFrom(_, _)
HashFrom(h, name) ==
    IF name = <<>> THEN h ELSE HashFrom(HashStep(h, Head(name)), Tail(name))

\* hash % n as JavaScript takes it: the sign of the result is that of hash
Remainder(h, n) == IF h < 0 /\ h % n # 0 THEN (h % n) - n ELSE h % n

\* Math.abs
Abs(x) == IF x < 0 THEN -x ELSE x

\* Math.abs(hash) % n: Math.abs(-2^31) is 2^31, a number and no 32-bit
\* integer, so the remainder is taken without forming it
AbsRemainder(h, n) == IF h < 0 THEN (n - (h % n)) % n ELSE h % n

Hsl(h, s, l) == [hue |-> h, saturation |-> s, lightness |-> l]

\* generateColorFromName with the hue taken as hash % 360, sign and all
generateColorSignedHue(name) ==
    LET hash == HashFrom(0, name)
    IN  Hsl(Remainder(hash, 360),
            65 + AbsRemainder(hash, 20),
            45 + AbsRemainder(hash, 15))

generateColorFromName(name) ==
    LET hash == HashFrom(0, name)
    IN  Hsl(Abs(Remainder(hash, 360)),
            65 + AbsRemainder(hash, 20),
            45 + AbsRemainder(hash, 15))

\* The code units of the names handed to generateColorFromName: G Z _ d y
ColorAlphabet == {71, 90, 95, 100, 121}

ColorNames == SeqsUpTo(ColorAlphabet, MaxNameLen)

NoColor == Hsl(0 - 1, 0 - 1, 0 - 1)

-----------------------------------------------------------------------------
(* The display order *)

\* The comparator (a, b) => b[1].count - a[1].count; a NaN result counts as 0
Compare(a, b) == IF a.numeric /\ b.numeric THEN b.count - a.count ELSE 0

\* Array.prototype.sort is stable: e goes behind every element that the
\* comparator does not place after it
RECURSIVE InsertSorted(_, _)
InsertSorted(s, e) ==
    IF s = <<>> THEN <<e>>
    ELSE IF Compare(s[Len(s)], e) > 0
         THEN Append(InsertSorted(SubSeq(s, 1, Len(s) - 1), e), s[Len(s)])
         ELSE Append(s, e)

RECURSIVE SortFrom(_, _)
SortFrom(done, rest) ==
    IF rest = <<>> THEN done ELSE SortFrom(InsertSorted(done, Head(rest)), Tail(rest))

\* Object.entries(materials).sort(...)
SortedMaterials(m) == SortFrom(<<>>, m)

-----------------------------------------------------------------------------
(* Reference definitions for the claims about one import *)

Items(f) == IF f.kind = "array" THEN f.items ELSE <<>>

\* A record with a non-empty text name whose lowercase form lacks "empty"
Qualifies(r) ==
    /\ r.rk = "obj"
    /\ r.name.nk = "str"
    /\ Len(r.name.str) > 0
    /\ ~Includes(ToLowerCase(r.name.str), TextEmpty)

NamedIn(items, n) == {i \in DOMAIN items : Qualifies(items[i]) /\ items[i].name.str = n}

QualifyingNames(items) == {items[i].name.str : i \in {j \in DOMAIN items : Qualifies(items[j])}}

Occurrences(d, n) ==
    Cardinality(NamedIn(Items(d.blocks), n)) + Cardinality(NamedIn(Items(d.fluids), n))

RECURSIVE SumCounts(_)
SumCounts(m) == IF m = <<>> THEN 0 ELSE Head(m).count + SumCounts(Tail(m))

EntriesOf(m, n) == {i \in DOMAIN m : m[i].name = n}

ImportSucceeded == pc = "done" /\ outcome.kind = "ok"

-----------------------------------------------------------------------------
(* The layer-aware App: state *)

NoLayer == [chosen |-> FALSE, y |-> 0]
Layer(y) == [chosen |-> TRUE, y |-> y]

\* A localStorage entry: absent (getItem answers null), the empty text, a
\* text that is not JSON, or the JSON text of a value
NoItem(empty) == [st |-> "absent", val |-> empty]
BlankItem(empty) == [st |-> "blank", val |-> empty]
CorruptItem(empty) == [st |-> "corrupt", val |-> empty]
Stringify(v) == [st |-> "ok", val |-> v]

\* saved is truthy: null and the empty text are not
Saved(item) == item.st \in {"ok", "corrupt"}

\* JSON.parse(saved) throws
Throws(item) == item.st = "corrupt"

\* saved ? JSON.parse(saved) : {}, where JSON.parse answers
ParseOr(item, empty) == IF Saved(item) /\ ~Throws(item) THEN item.val ELSE empty

NoChecks == [n \in {} |-> FALSE]
NoColors == [n \in {} |-> NoColor]

EmptyStorage ==
    [materials |-> NoItem(<<>>), checkedItems |-> NoItem(NoChecks),
     blocks |-> NoItem(<<>>), blockColors |-> NoItem(NoColors)]

\* The files the user imports into the running App
AppRecords ==
    {Rec("obj", StrName(NameDirt), 0, 0, 0), Rec("obj", StrName(NameDirtUpper), 1, 1, 0)}
AppFluids == {Absent, ArrayOf(<<Rec("obj", StrName(NameDirt), 0, 0, 0)>>)}

AppDocs ==
    {InvalidDoc, Doc("object", Absent, Absent)}
    \cup {Doc("object", ArrayOf(b), f) : b \in SeqsUpTo(AppRecords, MaxAppBlocks),
                                         f \in AppFluids}

\* The block lists handed to the grid: two names, two layers, and x and z
\* each 0, 1 or not given
GridCoordinates == {0, 1, Undefined}
GridRecords ==
    {Rec("obj", StrName(n), x, y, z) :
        n \in {NameDirt, NameDirtUpper}, x \in GridCoordinates, y \in {0, 1},
        z \in GridCoordinates}

AppIdle ==
    /\ materials = <<>>
    /\ blocks = <<>>
    /\ blockColors = NoColors
    /\ error = ""
    /\ checkedItems = NoChecks
    /\ selectedLayer = NoLayer
    /\ storage = EmptyStorage
    /\ pending = <<>>
    /\ lastOp = "none"
    /\ imported = InvalidDoc

-----------------------------------------------------------------------------
(* The import handler as a function of the document *)

Variants == {"basic", "fluid", "layer"}

NoOutcome == Outcome("none", <<>>, <<>>)

AggIdle ==
    /\ variant = "layer"
    /\ doc = InvalidDoc
    /\ outcome = NoOutcome

ColorIdle ==
    /\ colorName = <<>>
    /\ color = NoColor

AggInit ==
    /\ variant \in Variants
    /\ doc \in AggDocs
    /\ outcome = NoOutcome
    /\ pc = "read"
    /\ ColorIdle
    /\ AppIdle

Onload ==
    /\ pc = "read"
    /\ outcome' = HandleOnload(variant, doc)
    /\ pc' = "done"
    /\ UNCHANGED <<variant, doc, colorVars, appVars>>

AggNext == Onload

SpecAggregate == AggInit /\ [][AggNext]_vars

-----------------------------------------------------------------------------
(* generateColorFromName as a function of the name *)

ColorInit ==
    /\ colorName \in ColorNames
    /\ color = NoColor
    /\ pc = "read"
    /\ AggIdle
    /\ AppIdle

Colorize ==
    /\ pc = "read"
    /\ color' = generateColorFromName(colorName)
    /\ pc' = "done"
    /\ UNCHANGED <<colorName, aggVars, appVars>>

ColorNext == Colorize

SpecColor == ColorInit /\ [][ColorNext]_vars

-----------------------------------------------------------------------------
(* The layer-aware App: colors and grid *)

\* The property names of newColors that answer truthy
HasColor(colors, n) == n \in DOMAIN colors \/ n \in InheritedNames

\* generateColorFromName on the names of the files imported, worked out once
ColorTable == {<<r.name.str, generateColorFromName(r.name.str)>> : r \in AppRecords}

ColorOfName(n) == (CHOOSE p \in ColorTable : p[1] = n)[2]

\* newColors[block.name] = generateColorFromName(block.name)
WithColor(colors, n) ==
    [k \in DOMAIN colors \cup {n} |-> IF k = n THEN ColorOfName(n) ELSE colors[k]]

\* The forEach of ensureBlockColors over newColors = {...blockColors}
RECURSIVE ColorAll(_, _)
ColorAll(colors, blocksToColor) ==
    IF blocksToColor = <<>> THEN colors
    ELSE LET b == Head(blocksToColor)
         IN  ColorAll(IF b.rk = "obj" /\ Truthy(b.name) /\ ~HasColor(colors, b.name.str)
                      THEN WithColor(colors, b.name.str)
                      ELSE colors,
                      Tail(blocksToColor))

\* ensureBlockColors: the color map after the call, given the map captured
\* by the render that made the handler and the map now in state
ensureBlockColors(captured, current, blocksToColor) ==
    LET newColors == ColorAll(captured, blocksToColor)
        hasNewColors == newColors # captured
    IN  IF hasNewColors THEN newColors ELSE current

uniqueLayers(bs) == {bs[i].y : i \in DOMAIN bs}

blocksOnLayer(bs, layer) ==
    IF layer.chosen THEN SelectSeq(bs, LAMBDA b : b.y = layer.y) ELSE <<>>

Min(S) == CHOOSE m \in S : \A k \in S : m <= k
Max(S) == CHOOSE m \in S : \A k \in S : m >= k

\* Math.min(...values) and Math.max(...values): undefined converts to NaN
\* and NaN is the answer as soon as one value is NaN
MathMin(S) == IF Undefined \in S THEN NaN ELSE Min(S)
MathMax(S) == IF Undefined \in S THEN NaN ELSE Max(S)

getGlobalGridBounds(bs) ==
    IF Len(bs) = 0 THEN [minX |-> 0, maxX |-> 0, minZ |-> 0, maxZ |-> 0]
    ELSE [minX |-> MathMin({bs[i].x : i \in DOMAIN bs}),
          maxX |-> MathMax({bs[i].x : i \in DOMAIN bs}),
          minZ |-> MathMin({bs[i].z : i \in DOMAIN bs}),
          maxZ |-> MathMax({bs[i].z : i \in DOMAIN bs})]

\* `${n}` for a coordinate: "undefined", or the digits of a number of one
\* digit with its sign
NumText(n) ==
    IF n = Undefined THEN <<117, 110, 100, 101, 102, 105, 110, 101, 100>>
    ELSE IF n < 0 THEN <<45, 48 - n>>
    ELSE <<48 + n>>

\* `${x},${z}`
CellKey(x, z) == NumText(x) \o <<44>> \o NumText(z)

\* getBlockGridMap: map.set(`${x},${z}`, block) in list order, so the last
\* block of a key stays
getBlockGridMap(onLayer) ==
    LET keys == {CellKey(onLayer[i].x, onLayer[i].z) : i \in DOMAIN onLayer}
    IN  [k \in keys |->
            onLayer[Max({i \in DOMAIN onLayer :
                            CellKey(onLayer[i].x, onLayer[i].z) = k})]]

\* Array.from({ length: max - min + 1 }): a length of NaN gives no element
ArrayLength(min, max) == IF min = NaN \/ max = NaN THEN 0 ELSE max - min + 1

\* The cells the two nested maps render, row after row: x = minX + xIdx,
\* z = minZ + zIdx
GridCells(bounds) ==
    LET rows == ArrayLength(bounds.minX, bounds.maxX)
        columns == ArrayLength(bounds.minZ, bounds.maxZ)
    IN  [k \in 1..(rows * columns) |->
            [x |-> bounds.minX + ((k - 1) \div columns),
             z |-> bounds.minZ + ((k - 1) % columns)]]

\* The cells for which blockMap.get(`${x},${z}`) answers a block
OccupiedCells(bounds, map) ==
    LET cells == GridCells(bounds)
    IN  {k \in DOMAIN cells : CellKey(cells[k].x, cells[k].z) \in DOMAIN map}

\* selectedLayer !== null && blocksOnLayer.length > 0
GridShown == selectedLayer.chosen /\ Len(blocksOnLayer(blocks, selectedLayer)) > 0

\* The blocks the rendered cells show: one per cell inside the bounds that
\* the grid map answers
ShownBlocks ==
    LET bounds == getGlobalGridBounds(blocks)
        map == getBlockGridMap(blocksOnLayer(blocks, selectedLayer))
        cells == GridCells(bounds)
    IN  {map[CellKey(cells[k].x, cells[k].z)] : k \in OccupiedCells(bounds, map)}

-----------------------------------------------------------------------------
(* The layer-aware App: operations *)

\* The effects that save state: each runs after a render in which its
\* state was set, in the order blocks, blockColors, materials, checkedItems
SaveEffects(store, setBlocks, setColors, setMaterials, setChecked) ==
    [blocks |->
        IF setBlocks /\ Len(blocks') > 0 THEN Stringify(blocks') ELSE store.blocks,
     blockColors |->
        IF setColors /\ DOMAIN blockColors' # {} THEN Stringify(blockColors')
        ELSE store.blockColors,
     materials |->
        IF setMaterials /\ Len(materials') > 0 THEN Stringify(materials')
        ELSE store.materials,
     checkedItems |->
        IF setChecked THEN Stringify(checkedItems') ELSE store.checkedItems]

\* First mount on an empty localStorage. isLoadingFromStorage is already
\* false when the checkedItems effect runs, so that entry is written.
Init ==
    /\ materials = <<>>
    /\ blocks = <<>>
    /\ blockColors = NoColors
    /\ error = ""
    /\ checkedItems = NoChecks
    /\ selectedLayer = NoLayer
    /\ storage = [EmptyStorage EXCEPT !.checkedItems = Stringify(NoChecks)]
    /\ pending = <<>>
    /\ lastOp = "none"
    /\ imported = InvalidDoc
    /\ pc = "done"
    /\ AggIdle
    /\ ColorIdle

Frame == UNCHANGED <<pc, aggVars, colorVars>>

\* The reads in flight once another file is selected: each of them is now
\* older than the most recently started import
Superseded(reads) == [j \in DOMAIN reads |-> [reads[j] EXCEPT !.stale = TRUE]]

\* handleFileImport up to reader.readAsText: the handler, and with it the
\* blockColors of the render that made it, stays alive until onload; the
\* reads already in flight go on
SelectFile ==
    /\ Len(pending) < MaxPending
    /\ error' = ""
    /\ pending' = Append(Superseded(pending), [colors |-> blockColors, stale |-> FALSE])
    /\ lastOp' = "none"
    /\ imported' = InvalidDoc
    /\ UNCHANGED <<materials, blocks, blockColors, checkedItems, selectedLayer, storage>>
    /\ Frame

Without(s, i) == SubSeq(s, 1, i - 1) \o SubSeq(s, i + 1, Len(s))

\* reader.onload of the i-th read in flight, on the text d, and the save
\* effects of the render it causes
Complete(i, d) ==
    LET out == HandleOnload("layer", d)
    IN  /\ pending' = Without(pending, i)
        /\ lastOp' = out.kind
        /\ imported' = d
        /\ materials' = out.materials
        /\ blocks' = IF out.kind = "schema" THEN blocks ELSE out.blocks
        /\ blockColors' =
               IF out.kind = "ok"
               THEN ensureBlockColors(pending[i].colors, blockColors, out.blocks)
               ELSE blockColors
        /\ error' = IF out.kind = "schema" THEN SchemaMessage
                    ELSE IF out.kind = "parse" THEN ParseMessage
                    ELSE error
        /\ storage' = SaveEffects(storage, out.kind # "schema",
                                  blockColors' # blockColors, TRUE, FALSE)
        /\ UNCHANGED <<checkedItems, selectedLayer>>
        /\ Frame

CompleteImport == \E i \in DOMAIN pending : \E d \in AppDocs : Complete(i, d)

\* onChange of the layer selector
SelectLayer ==
    /\ \E l \in {NoLayer} \cup {Layer(y) : y \in uniqueLayers(blocks)} :
           /\ l # selectedLayer
           /\ selectedLayer' = l
    /\ lastOp' = "none"
    /\ imported' = InvalidDoc
    /\ UNCHANGED <<materials, blocks, blockColors, error, checkedItems, storage, pending>>
    /\ Frame

\* prev[material]: the own property, or what {} inherits under that name
CheckedValue(prev, material) ==
    IF material \in DOMAIN prev THEN prev[material] ELSE material \in InheritedNames

\* toggleChecked that checks the name whatever its value was
toggleCheckedOn(prev, material) ==
    [k \in DOMAIN prev \cup {material} |-> IF k = material THEN TRUE ELSE prev[k]]

\* toggleChecked: prev => ({ ...prev, [material]: !prev[material] })
toggleChecked(prev, material) ==
    [k \in DOMAIN prev \cup {material} |->
        IF k = material THEN ~CheckedValue(prev, material) ELSE prev[k]]

\* onChange of the checkbox of a row of the materials table
ToggleChecked ==
    /\ \E n \in Keys(materials) : checkedItems' = toggleChecked(checkedItems, n)
    /\ storage' = SaveEffects(storage, FALSE, FALSE, FALSE, TRUE)
    /\ lastOp' = "toggle"
    /\ imported' = InvalidDoc
    /\ UNCHANGED <<materials, blocks, blockColors, error, selectedLayer, pending>>
    /\ Frame

\* A useState initializer throws: JSON.parse(saved) is not in a try block
\* for materials, checkedItems and blockColors
InitializerThrows ==
    Throws(storage.materials) \/ Throws(storage.checkedItems) \/ Throws(storage.blockColors)

\* The App mounts on what localStorage holds: the useState initializers,
\* the mount effect that loads blocks (its JSON.parse is in a try block)
\* and the save effects of the first renders
Mount ==
    /\ materials' = ParseOr(storage.materials, <<>>)
    /\ checkedItems' = ParseOr(storage.checkedItems, NoChecks)
    /\ blockColors' = ParseOr(storage.blockColors, NoColors)
    /\ blocks' = ParseOr(storage.blocks, <<>>)
    /\ error' = ""
    /\ selectedLayer' = NoLayer
    /\ pending' = <<>>
    /\ storage' = SaveEffects(storage, storage.blocks.st = "ok", TRUE, TRUE, TRUE)

\* The page is loaded again; reads in flight are gone
Reload ==
    /\ Mount
    /\ lastOp' = "reload"
    /\ imported' = InvalidDoc
    /\ Frame

\* An entry of localStorage is removed from outside the App
RemoveItem ==
    /\ \E k \in {"blocks", "blockColors"} :
           /\ storage[k].st = "ok"
           /\ storage' = [storage EXCEPT ![k] = EmptyStorage[k]]
    /\ lastOp' = "none"
    /\ imported' = InvalidDoc
    /\ UNCHANGED <<materials, blocks, blockColors, error, checkedItems, selectedLayer, pending>>
    /\ Frame

Next ==
    \/ SelectFile
    \/ CompleteImport
    \/ SelectLayer
    \/ Reload
    \/ RemoveItem

Spec == Init /\ [][Next]_vars

\* What localStorage may hold when the page is opened
StoredMaterials ==
    {<<Entry(NameDirt, 1, "block", TRUE)>>,
     <<Entry(NameDirtUpper, 2, "block", TRUE), Entry(NameDirt, 1, "fluid", TRUE)>>}
StoredBlocks ==
    {<<Rec("obj", StrName(NameDirt), 0, 0, 0)>>,
     <<Rec("obj", StrName(NameDirtUpper), 1, 1, 0), Rec("obj", StrName(NameDirtUpper), 0, 1, 0)>>}
StoredChecks == {[n \in {NameDirt} |-> TRUE]}
StoredColors == {[n \in {NameDirt} |-> ColorOfName(NameDirt)]}

ItemsOf(values, empty) ==
    {NoItem(empty), BlankItem(empty), CorruptItem(empty)} \cup {Stringify(v) : v \in values}

StartupInit ==
    /\ storage \in [materials : ItemsOf(StoredMaterials, <<>>),
                     checkedItems : ItemsOf(StoredChecks, NoChecks),
                     blocks : ItemsOf(StoredBlocks, <<>>),
                     blockColors : ItemsOf(StoredColors, NoColors)]
    /\ materials = <<>>
    /\ blocks = <<>>
    /\ blockColors = NoColors
    /\ error = ""
    /\ checkedItems = NoChecks
    /\ selectedLayer = NoLayer
    /\ pending = <<>>
    /\ lastOp = "none"
    /\ imported = InvalidDoc
    /\ pc = "read"
    /\ AggIdle
    /\ ColorIdle

\* The page is opened: the App mounts, or an initializer throws during the
\* first render and nothing is mounted
Startup ==
    /\ pc = "read"
    /\ IF InitializerThrows
       THEN /\ pc' = "threw"
            /\ UNCHANGED <<materials, blocks, blockColors, error, checkedItems,
                           selectedLayer, storage, pending>>
       ELSE /\ pc' = "done"
            /\ Mount
    /\ UNCHANGED <<lastOp, imported, aggVars, colorVars>>

StartupNext == Startup

SpecStartup == StartupInit /\ [][StartupNext]_vars

\* The grid of a block list: the App holds the list and the user goes from
\* layer to layer
GridInit ==
    /\ blocks \in SeqsUpTo(GridRecords, MaxGridBlocks)
    /\ materials = <<>>
    /\ blockColors = NoColors
    /\ error = ""
    /\ checkedItems = NoChecks
    /\ selectedLayer = NoLayer
    /\ storage = EmptyStorage
    /\ pending = <<>>
    /\ lastOp = "none"
    /\ imported = InvalidDoc
    /\ pc = "done"
    /\ AggIdle
    /\ ColorIdle

GridNext == SelectLayer

SpecGrid == GridInit /\ [][GridNext]_vars

\* The App left to itself: localStorage is written by the App alone
NextSession ==
    \/ SelectFile
    \/ CompleteImport
    \/ SelectLayer
    \/ Reload

SpecSession == Init /\ [][NextSession]_vars

\* The same App with the checkboxes of the materials table in use, on
\* three files: one that fails to parse, one with "dirt", one with "dirt"
\* and "Dirt" on two layers
CheckedDocs ==
    {InvalidDoc,
     Doc("object", ArrayOf(<<Rec("obj", StrName(NameDirt), 0, 0, 0)>>), Absent),
     Doc("object", ArrayOf(<<Rec("obj", StrName(NameDirt), 0, 0, 0),
                             Rec("obj", StrName(NameDirtUpper), 1, 1, 0)>>), Absent)}

CompleteCheckedImport == \E i \in DOMAIN pending : \E d \in CheckedDocs : Complete(i, d)

NextChecked ==
    \/ SelectFile
    \/ CompleteCheckedImport
    \/ SelectLayer
    \/ ToggleChecked
    \/ Reload

SpecChecked == Init /\ [][NextChecked]_vars

-----------------------------------------------------------------------------
(* Claims about one import *)

IsObjectWithBlocks == doc.kind = "object" /\ doc.blocks.kind = "array"

AllItems == Items(doc.blocks) \o Items(doc.fluids)

\* C1: after a successful import by the layer-aware handler the tally's keys
\* are exactly the names of the qualifying records of the blocks and fluids
\* lists, each count is the number of records with that exact name in both
\* lists, and the counts add up to the number of qualifying records.
C1_TallyMatchesRecords ==
    (ImportSucceeded /\ variant = "layer") =>
        /\ Keys(outcome.materials) = QualifyingNames(AllItems)
        /\ \A i \in DOMAIN outcome.materials :
               outcome.materials[i].count = Occurrences(doc, outcome.materials[i].name)
        /\ SumCounts(outcome.materials)
               = Cardinality({i \in DOMAIN AllItems : Qualifies(AllItems[i])})

\* C2 as stated: in every version of the handler, no name whose lowercase
\* form contains "empty" is a key of the tally after an import.
C2_EmptyNeverCountedAnyVersion ==
    pc = "done" =>
        \A i \in DOMAIN outcome.materials :
            ~Includes(ToLowerCase(outcome.materials[i].name), TextEmpty)

\* C2 amended: in the fluid-aware and the layer-aware handler, no name whose
\* lowercase form contains "empty" is a key of the tally after an import.
C2_EmptyNeverCounted ==
    (pc = "done" /\ variant \in {"fluid", "layer"}) =>
        \A i \in DOMAIN outcome.materials :
            ~Includes(ToLowerCase(outcome.materials[i].name), TextEmpty)

\* A successful import of a file whose only block is named "Empty" left the
\* tally empty.
C2_Witness ==
    /\ ImportSucceeded
    /\ variant = "layer"
    /\ doc.blocks.items = <<Rec("obj", StrName(NameEmpty), 0, 0, 0)>>
    /\ outcome.materials = <<>>

\* C3: a qualifying name that occurs in both lists has a single entry, whose
\* count is the number of its occurrences in both lists and whose category
\* is block; an entry's category is fluid only if its name occurs in the
\* fluids list and not in the blocks list.
C3_SharedNameIsBlock ==
    (ImportSucceeded /\ variant = "layer") =>
        /\ \A n \in QualifyingNames(Items(doc.blocks)) \cap QualifyingNames(Items(doc.fluids)) :
               /\ Cardinality(EntriesOf(outcome.materials, n)) = 1
               /\ \A i \in EntriesOf(outcome.materials, n) :
                      /\ outcome.materials[i].count = Occurrences(doc, n)
                      /\ outcome.materials[i].type = "block"
        /\ \A i \in DOMAIN outcome.materials :
               outcome.materials[i].type = "fluid" =>
                   /\ outcome.materials[i].name \in QualifyingNames(Items(doc.fluids))
                   /\ outcome.materials[i].name \notin QualifyingNames(Items(doc.blocks))

\* C4: a text that is valid JSON but holds no blocks array gives the schema
\* error, and the parse error is given only for a text that is not valid
\* JSON.
C4_SchemaErrorForParsedText ==
    (pc = "done" /\ variant = "layer") =>
        /\ (doc.kind # "invalid" /\ ~IsObjectWithBlocks) => outcome.kind = "schema"
        /\ outcome.kind = "parse" => doc.kind = "invalid"

\* C6: an import of a document with a blocks array succeeds whatever
\* malformed records its lists hold, and counts every well-formed record.
C6_MalformedRecordsSkipped ==
    (pc = "done" /\ variant = "layer" /\ IsObjectWithBlocks) =>
        /\ outcome.kind = "ok"
        /\ \A n \in QualifyingNames(AllItems) :
               \E i \in DOMAIN outcome.materials :
                   /\ outcome.materials[i].name = n
                   /\ outcome.materials[i].count = Occurrences(doc, n)

IsPermutation(s, m) ==
    /\ Len(s) = Len(m)
    /\ \E f \in [DOMAIN s -> DOMAIN m] :
           /\ \A i, j \in DOMAIN s : i # j => f[i] # f[j]
           /\ \A i \in DOMAIN s : s[i] = m[f[i]]

\* count(a) >= count(b) as the numbers compare
NotBelow(a, b) == a.numeric /\ b.numeric /\ a.count >= b.count

\* C8: the displayed sequence is a permutation of the tally's entries and
\* no entry is followed by one with a higher count.
C8_SortedByCountDescending ==
    pc = "done" =>
        LET shown == SortedMaterials(outcome.materials)
        IN  /\ IsPermutation(shown, outcome.materials)
            /\ \A i \in 1..(Len(shown) - 1) : NotBelow(shown[i], shown[i + 1])

-----------------------------------------------------------------------------
(* Claims about the color of a name *)

\* hash * 31 + charCode with 32-bit signed wrap-around
ReferenceStep(h, char) == Int32(HighHalf(h) * 31, LowHalf(h) * 31 + char)

RECURSIVE ReferenceHash(_, _)
ReferenceHash(h, name) ==
    IF name = <<>> THEN h ELSE ReferenceHash(ReferenceStep(h, Head(name)), Tail(name))

MinInt32 == (0 - 32768) * Half

\* C9: the color of a name is hue = abs(hash) mod 360, saturation = 65 +
\* abs(hash) mod 20, lightness = 45 + abs(hash) mod 15, where hash follows
\* hash = hash * 31 + charCode from 0 with 32-bit signed wrap-around.
C9_ColorFollowsReferenceHash ==
    pc = "done" =>
        LET hash == ReferenceHash(0, colorName)
        IN  /\ color.hue = AbsRemainder(hash, 360)
            /\ color.saturation = 65 + AbsRemainder(hash, 20)
            /\ color.lightness = 45 + AbsRemainder(hash, 15)

\* The name "GydZG_", whose hash is -2^31, got its color.
C9_Witness ==
    /\ pc = "done"
    /\ colorName = <<71, 121, 100, 90, 71, 95>>
    /\ ReferenceHash(0, colorName) = MinInt32
    /\ color = Hsl(128, 73, 53)

-----------------------------------------------------------------------------
(* Claims about the running App *)

\* C5: when an import has just completed with the schema error or the
\* parse error, the tally and the block list are both empty.
C5_ErrorClearsTallyAndBlocks ==
    lastOp \in {"schema", "parse"} => materials = <<>> /\ blocks = <<>>

\* The tally of a document counted from nothing
TallyOf(d) ==
    ForEach("layer", ForEach("layer", Acc(<<>>), Items(d.blocks), "block"),
            Items(d.fluids), "fluid").counts

\* C7: when an import has just completed successfully, the tally is the one
\* its document gives when counted from nothing and the block list is the
\* document's blocks list, whatever the state was before.
C7_ImportDependsOnContentOnly ==
    lastOp = "ok" =>
        /\ materials = TallyOf(imported)
        /\ blocks = Items(imported.blocks)

\* A file holding one "Dirt" block was imported after "dirt" had been
\* imported before (its color is still in the map), and the tally holds
\* "Dirt" alone.
C7_Witness ==
    /\ lastOp = "ok"
    /\ Items(imported.blocks) = <<Rec("obj", StrName(NameDirtUpper), 1, 1, 0)>>
    /\ imported.fluids = Absent
    /\ NameDirt \in DOMAIN blockColors
    /\ materials = <<Entry(NameDirtUpper, 1, "block", TRUE)>>

\* C10: whenever the grid is shown, the name of every block it shows has an
\* entry in the color map.
C10_ShownBlocksHaveColors ==
    GridShown => \A b \in ShownBlocks : b.name.str \in DOMAIN blockColors

-----------------------------------------------------------------------------
(* Claims about the grid *)

\* The (x, z) pairs of the blocks on the selected layer
PairsOnLayer ==
    LET onLayer == blocksOnLayer(blocks, selectedLayer)
    IN  {<<onLayer[i].x, onLayer[i].z>> : i \in DOMAIN onLayer}

\* The last block of the list that is on the selected layer at (x, z)
LastAt(x, z) ==
    LET onLayer == blocksOnLayer(blocks, selectedLayer)
    IN  onLayer[Max({i \in DOMAIN onLayer : onLayer[i].x = x /\ onLayer[i].z = z})]

\* C11: when the grid of a layer that has blocks is shown, it has exactly
\* one cell for every pair (x, z) inside the bounds, as many occupied cells
\* as the blocks of the layer have distinct (x, z) pairs, and an occupied
\* cell shows the last block of the list at its (x, z).
C11_GridShowsEveryPairOnce ==
    GridShown =>
        LET bounds == getGlobalGridBounds(blocks)
            cells == GridCells(bounds)
            map == getBlockGridMap(blocksOnLayer(blocks, selectedLayer))
            occupied == OccupiedCells(bounds, map)
        IN  /\ \A x \in bounds.minX..bounds.maxX, z \in bounds.minZ..bounds.maxZ :
                   Cardinality({k \in DOMAIN cells : cells[k] = [x |-> x, z |-> z]}) = 1
            /\ Len(cells) = Cardinality((bounds.minX..bounds.maxX)
                                          \X (bounds.minZ..bounds.maxZ))
            /\ Cardinality(occupied) = Cardinality(PairsOnLayer)
            /\ \A k \in occupied :
                   map[CellKey(cells[k].x, cells[k].z)] = LastAt(cells[k].x, cells[k].z)

\* x >= min && x <= max as the numbers compare: never true of undefined or
\* of NaN
Within(v, min, max) == v # Undefined /\ min # NaN /\ max # NaN /\ min <= v /\ v <= max

\* C12: the bounds are the least and the greatest x and z of the blocks of
\* all layers, so that every block lies inside them whatever layer is
\* selected, and they are (0,0)-(0,0) for the empty list.
C12_BoundsCoverAllBlocks ==
    LET bounds == getGlobalGridBounds(blocks)
    IN  /\ blocks = <<>> => bounds = [minX |-> 0, maxX |-> 0, minZ |-> 0, maxZ |-> 0]
        /\ blocks # <<>> =>
               /\ \A i \in DOMAIN blocks :
                      /\ Within(blocks[i].x, bounds.minX, bounds.maxX)
                      /\ Within(blocks[i].z, bounds.minZ, bounds.maxZ)
               /\ \E i \in DOMAIN blocks : blocks[i].x = bounds.minX
               /\ \E i \in DOMAIN blocks : blocks[i].x = bounds.maxX
               /\ \E i \in DOMAIN blocks : blocks[i].z = bounds.minZ
               /\ \E i \in DOMAIN blocks : blocks[i].z = bounds.maxZ

-----------------------------------------------------------------------------
(* Claims about the persisted state *)

\* The entry is missing or its text is not JSON
BadEntry(item) == item.st # "ok"

\* C13: at startup no error is raised, and each of the four entries that is
\* missing or not parseable starts as its empty value, whatever the other
\* entries hold.
C13_BadEntriesStartEmpty ==
    [][pc = "read" =>
          /\ pc' = "done"
          /\ BadEntry(storage.materials) => materials' = <<>>
          /\ BadEntry(storage.checkedItems) => checkedItems' = NoChecks
          /\ BadEntry(storage.blocks) => blocks' = <<>>
          /\ BadEntry(storage.blockColors) => blockColors' = NoColors]_vars

\* C14: the four persisted entries always hold the in-memory tally, block
\* list, color map and checked-items map, the empty values included, so
\* that a reload restores exactly the latest in-memory state.
C14_StoredEqualsMemory ==
    /\ ParseOr(storage.materials, <<>>) = materials
    /\ ParseOr(storage.blocks, <<>>) = blocks
    /\ ParseOr(storage.blockColors, NoColors) = blockColors
    /\ ParseOr(storage.checkedItems, NoChecks) = checkedItems

\* A name counts as checked when the map holds TRUE for it
Checked(items, n) == n \in DOMAIN items /\ items[n]

\* C15: a toggle flips the checked value of one name of the table and of
\* no other name; an import leaves the map as it is; a reload restores the
\* map as it was and starts with no layer selected.
C15_TogglesFlipAndPersist ==
    [][/\ lastOp' = "toggle" =>
              \E n \in Keys(materials) :
                  /\ Checked(checkedItems', n) = ~Checked(checkedItems, n)
                  /\ \A k \in (DOMAIN checkedItems \cup DOMAIN checkedItems') \ {n} :
                         Checked(checkedItems', k) = Checked(checkedItems, k)
       /\ lastOp' \in {"ok", "schema", "parse"} => checkedItems' = checkedItems
       /\ lastOp' = "reload" =>
              /\ checkedItems' = checkedItems
              /\ selectedLayer' = NoLayer]_vars

\* The page was reloaded with "dirt" checked, "Dirt" unchecked again after
\* two toggles, and a layer selected before the reload.
C15_Witness ==
    /\ lastOp = "reload"
    /\ Checked(checkedItems, NameDirt)
    /\ NameDirtUpper \in DOMAIN checkedItems
    /\ ~checkedItems[NameDirtUpper]
    /\ blocks # <<>>
    /\ selectedLayer = NoLayer

-----------------------------------------------------------------------------
(* Claims about overlapping imports *)

Completions == {"ok", "schema", "parse"}

\* The step completes a read that was superseded by a later selection
CompletesSuperseded ==
    /\ lastOp' \in Completions
    /\ \E i \in DOMAIN pending : pending[i].stale /\ pending' = Without(pending, i)

\* C16: the result of an import that completes after a later import was
\* started is discarded: it changes neither the tally, nor the block list,
\* nor the error.
C16_SupersededImportDiscarded ==
    [][CompletesSuperseded =>
          /\ materials' = materials
          /\ blocks' = blocks
          /\ error' = error]_vars

\* C17: an import neither removes an entry of the color map nor changes
\* its value.
C17_ColorsOnlyAdded ==
    [][lastOp' \in Completions =>
          \A n \in DOMAIN blockColors :
              n \in DOMAIN blockColors' /\ blockColors'[n] = blockColors[n]]_vars

\* C18: whenever an error message is shown the tally is empty.
C18_ErrorImpliesEmptyTally ==
    error # "" => materials = <<>>

====
